---- MODULE Spec2Model ----
(***************************************************************************)
(* Heuristic transaction-risk scoring of the fraud dashboard:              *)
(* analyzeTransaction(tx, history) of the Dashboard page.                  *)
(*                                                                         *)
(* Conventions of the model                                                *)
(*   - instants (Date values, created_at, transaction_date, Date.now())    *)
(*     are integers, milliseconds since the epoch;                         *)
(*   - amounts are integers (whole currency units);                        *)
(*   - a JavaScript string is a sequence of one-character strings, so that *)
(*     toLowerCase is computed character by character;                     *)
(*   - a nullable value (string | null) is a sequence of length 0 (null)   *)
(*     or 1 (the value).                                                   *)
(***************************************************************************)
EXTENDS Integers, Sequences, FiniteSets, TLC

VARIABLES
    transactions,   \* Dashboard state: the user's rows, newest first (history)
    now,            \* the system clock, what Date.now() returns
    pc,             \* where the running call or handleSubmit stands ("idle", "done", ...)
    tx,             \* the form: the candidate handed to analyzeTransaction
    calledWith,     \* the history argument as it was when the call started
    clockReads,     \* the two values Date.now() returned inside the call
    result,         \* what analyzeTransaction returned
    table,          \* the rows of the transactions table, in insertion order
    analyses,       \* the rows of the fraud_analysis table, in insertion order
    channel,        \* ids of the inserted rows whose realtime INSERT event is on its way
    fetched,        \* the answer of a fetchTransactions on its way: null or the rows read
    closure,        \* `transactions` as the running handleSubmit captured it
    txData,         \* the row the insert of the running handleSubmit returned, or null
    mlResult,       \* Dashboard state: the last answer of the predictor, or null
    submitting,     \* Dashboard state: a submission is running
    body,           \* the JSON body of a POST /api/transactions on its way, or null
    nextId          \* the id the backend's database gives the next transactions row

\* the state of the page around the scorer
pageVars ==
    <<table, analyses, channel, fetched, closure, txData, mlResult, submitting, body, nextId>>

vars == <<transactions, now, pc, tx, calledWith, clockReads, result, pageVars>>

(***************************************************************************)
(* Bounds of the model                                                     *)
(***************************************************************************)
\* longest history drawn
MaxHistory == 5
\* largest number of milliseconds the clock advances between the two
\* Date.now() reads of one call
MaxDrift == 1

(***************************************************************************)
(* Program constants                                                       *)
(***************************************************************************)
OneHourMs == 3600000
FiveMinMs == 300000
HighValueLimit == 10000
VelocityLimit == 5
AmountAnomalyWeight == 25
HighValueWeight == 15
VelocityWeight == 20
GeoMismatchWeight == 20
UnusualTimeWeight == 15
DuplicateWeight == 20
MaxRiskScore == 100
HighRiskThreshold == 60
MediumRiskThreshold == 30

(***************************************************************************)
(* JavaScript values                                                       *)
(***************************************************************************)
Null == <<>>
Some(v) == <<v>>

UpperCaseLetters ==
    <<"A","B","C","D","E","F","G","H","I","J","K","L","M",
      "N","O","P","Q","R","S","T","U","V","W","X","Y","Z">>
LowerCaseLetters ==
    <<"a","b","c","d","e","f","g","h","i","j","k","l","m",
      "n","o","p","q","r","s","t","u","v","w","x","y","z">>

\* String.prototype.toLowerCase on one character
LowerChar(c) ==
    IF \E i \in DOMAIN UpperCaseLetters : UpperCaseLetters[i] = c
    THEN LowerCaseLetters[CHOOSE i \in DOMAIN UpperCaseLetters : UpperCaseLetters[i] = c]
    ELSE c

\* String.prototype.toLowerCase
toLowerCase(s) == [i \in DOMAIN s |-> LowerChar(s[i])]

\* truthiness of a string | null: null and "" are falsy
Truthy(loc) == loc # Null /\ Len(loc[1]) > 0

\* new Date(d).getHours(): the hour of day of an instant (the model's local
\* zone has offset 0)
getHours(d) == (d \div 3600000) % 24

\* Math.min
Min(a, b) == IF a < b THEN a ELSE b

\* history.reduce((s, t) => s + Number(t.amount), 0)
RECURSIVE SumAmounts(_)
SumAmounts(h) == IF h = <<>> THEN 0 ELSE Head(h).amount + SumAmounts(Tail(h))

\* Number.prototype.toFixed(0) of the quotient n / d (d > 0): the nearest
\* integer, halves rounded up
ToFixed0(n, d) == (2 * n + d) \div (2 * d)

\* Number.prototype.toFixed(1) of the quotient n / d (d > 0), in tenths
ToFixed1(n, d) == (20 * n + d) \div (2 * d)


(***************************************************************************)
(* Flags.  A flag is the template of its text with the values interpolated *)
(* into it: nums are the numbers, strs the strings, in template order.     *)
(***************************************************************************)
AmountAnomalyText == "Amount $<n1> is <n2 in tenths>x your average ($<n3>)"
HighValueText == "High-value transaction exceeds $10,000"
VelocityText == "<n1> transactions in the last hour (velocity alert)"
GeoMismatchText == "Location \"<s1>\" differs from last transaction \"<s2>\""
UnusualTimeText == "Transaction at unusual hour (<n1>:00)"
DuplicateText == "Possible duplicate: same amount and type within 5 minutes"

AmountAnomalyFlag(amount, sum, len) ==
    [text |-> AmountAnomalyText,
     nums |-> <<amount, ToFixed1(amount * len, sum), ToFixed0(sum, len)>>,
     strs |-> <<>>]

HighValueFlag == [text |-> HighValueText, nums |-> <<>>, strs |-> <<>>]

VelocityFlag(recentCount) ==
    [text |-> VelocityText, nums |-> <<recentCount>>, strs |-> <<>>]

GeoMismatchFlag(location, lastLocation) ==
    [text |-> GeoMismatchText, nums |-> <<>>, strs |-> <<location, lastLocation>>]

UnusualTimeFlag(txHour) ==
    [text |-> UnusualTimeText, nums |-> <<txHour>>, strs |-> <<>>]

DuplicateFlag == [text |-> DuplicateText, nums |-> <<>>, strs |-> <<>>]

(***************************************************************************)
(* The checks of analyzeTransaction, in the order of the body              *)
(***************************************************************************)
\* >= for > in the comparison with twice the average
IsAmountAnomaly_Inclusive(amount, history) ==
    /\ Len(history) > 0
    /\ amount * Len(history) >= SumAmounts(history) * 2

\* the anomaly boolean also set by an amount over 10000
IsAmountAnomaly_OrHighValue(amount, history) ==
    /\ Len(history) > 0
    /\ \/ amount * Len(history) > SumAmounts(history) * 2
       \/ amount > HighValueLimit

\* history.length > 0 and tx.amount > avgAmount * 2, where avgAmount is
\* sum / history.length (sum >= 0)
IsAmountAnomaly(amount, history) ==
    /\ Len(history) > 0
    /\ amount * Len(history) > SumAmounts(history) * 2

\* >= for > in the comparison with 10000
IsHighValue_Inclusive(amount) == amount >= HighValueLimit

\* tx.amount > 10000
IsHighValue(amount) == amount > HighValueLimit

\* >= for > in the comparison with the cutoff
RecentCount_Inclusive(history, now1) ==
    LET oneHourAgo == now1 - OneHourMs
    IN  Len(SelectSeq(history, LAMBDA h : h.created_at >= oneHourAgo))

\* the window closed at the current instant
RecentCount_Trailing(history, now1) ==
    LET oneHourAgo == now1 - OneHourMs
    IN  Len(SelectSeq(history, LAMBDA h : h.created_at > oneHourAgo /\ h.created_at <= now1))

\* history.filter((t) => new Date(t.created_at) > oneHourAgo).length
RecentCount(history, now1) ==
    LET oneHourAgo == now1 - OneHourMs
    IN  Len(SelectSeq(history, LAMBDA h : h.created_at > oneHourAgo))

\* the comparison turned round: at most 5 rows for at least 5
IsVelocity_AtMost(recentCount) == recentCount <= VelocityLimit

\* "more than 5" for "at least 5"
IsVelocity_MoreThan(recentCount) == recentCount > VelocityLimit

\* recentCount >= 5
IsVelocity(recentCount) == recentCount >= VelocityLimit

\* history[0]?.location
LastLocation(history) == IF Len(history) > 0 THEN history[1].location ELSE Null

\* the two locations compared as they are written
IsGeoMismatch_CaseSensitive(location, history) ==
    /\ Truthy(location)
    /\ Len(history) > 0
    /\ Truthy(LastLocation(history))
    /\ LastLocation(history)[1] # location[1]

\* tx.location && history.length > 0 && lastLocation &&
\* lastLocation.toLowerCase() !== tx.location.toLowerCase()
IsGeoMismatch(location, history) ==
    /\ Truthy(location)
    /\ Len(history) > 0
    /\ Truthy(LastLocation(history))
    /\ toLowerCase(LastLocation(history)[1]) # toLowerCase(location[1])

\* the window closed at 5:00 instead of 5:59
IsUnusualTime_Exclusive(txHour) == txHour >= 1 /\ txHour < 5

\* txHour >= 1 && txHour <= 5
IsUnusualTime(txHour) == txHour >= 1 /\ txHour <= 5

\* the transaction_type left out of the comparison
DuplicateMatches_AnyType(t, history, now2) ==
    LET fiveMinAgo == now2 - FiveMinMs
    IN  SelectSeq(history, LAMBDA h :
            /\ h.amount = t.amount
            /\ h.created_at > fiveMinAgo)

\* history.find(...): the entries the predicate of find accepts, in order;
\* find returns the first of them
DuplicateMatches(t, history, now2) ==
    LET fiveMinAgo == now2 - FiveMinMs
    IN  SelectSeq(history, LAMBDA h :
            /\ h.amount = t.amount
            /\ h.transaction_type = t.transaction_type
            /\ h.created_at > fiveMinAgo)

\* the duplicate window as long as the velocity window
IsDuplicate_HourWindow(t, history, now2) ==
    DuplicateMatches(t, history, now2 + FiveMinMs - OneHourMs) # <<>>

\* a duplicate found in an empty history
IsDuplicate_OrEmpty(t, history, now2) ==
    Len(history) = 0 \/ DuplicateMatches(t, history, now2) # <<>>

\* if (duplicate)
IsDuplicate(t, history, now2) == DuplicateMatches(t, history, now2) # <<>>

\* the clamp forgotten
ClampScore_None(riskScore) == riskScore

\* the clamp ten points lower
ClampScore_TenLower(riskScore) == Min(riskScore, MaxRiskScore - 10)

\* Math.min(riskScore, 100)
ClampScore(riskScore) == Min(riskScore, MaxRiskScore)

\* strict comparisons in the classification
RiskLevel_Strict(riskScore) ==
    IF riskScore > HighRiskThreshold THEN "high"
    ELSE IF riskScore > MediumRiskThreshold THEN "medium"
    ELSE "low"

\* "high" from the sum of the two largest weights on
RiskLevel_TwoSuffice(riskScore) ==
    IF riskScore >= AmountAnomalyWeight + VelocityWeight THEN "high"
    ELSE IF riskScore >= MediumRiskThreshold THEN "medium"
    ELSE "low"

\* riskScore >= 60 ? "high" : riskScore >= 30 ? "medium" : "low"
RiskLevel(riskScore) ==
    IF riskScore >= HighRiskThreshold THEN "high"
    ELSE IF riskScore >= MediumRiskThreshold THEN "medium"
    ELSE "low"

\* each addition capped below the level "high"
AddScore_Capped(riskScore, fired, weight) ==
    IF fired THEN Min(riskScore + weight, HighRiskThreshold - 1) ELSE riskScore

\* flags.unshift for flags.push
PushFlag_Unshift(flags, fired, flag) == IF fired THEN <<flag>> \o flags ELSE flags

\* riskScore += weight, when the check fired
AddScore(riskScore, fired, weight) == IF fired THEN riskScore + weight ELSE riskScore

\* flags.push(flag), when the check fired
PushFlag(flags, fired, flag) == IF fired THEN Append(flags, flag) ELSE flags

(***************************************************************************)
(* analyzeTransaction(tx, history).  The two further parameters are the    *)
(* values of the two Date.now() reads of the body: now1 for the velocity   *)
(* window, now2 for the duplicate window.                                  *)
(***************************************************************************)
analyzeTransaction(t, history, now1, now2) ==
    LET amountAnomaly == IsAmountAnomaly(t.amount, history)
        score1 == AddScore(0, amountAnomaly, AmountAnomalyWeight)
        flags1 == PushFlag(<<>>, amountAnomaly,
                    AmountAnomalyFlag(t.amount, SumAmounts(history), Len(history)))
        highValue == IsHighValue(t.amount)
        score2 == AddScore(score1, highValue, HighValueWeight)
        flags2 == PushFlag(flags1, highValue, HighValueFlag)
        recentCount == RecentCount(history, now1)
        velocityCheck == IsVelocity(recentCount)
        score3 == AddScore(score2, velocityCheck, VelocityWeight)
        flags3 == PushFlag(flags2, velocityCheck, VelocityFlag(recentCount))
        geoMismatch == IsGeoMismatch(t.location, history)
        score4 == AddScore(score3, geoMismatch, GeoMismatchWeight)
        flags4 == PushFlag(flags3, geoMismatch,
                    GeoMismatchFlag(t.location[1], LastLocation(history)[1]))
        txHour == getHours(t.transaction_date)
        unusualTime == IsUnusualTime(txHour)
        score5 == AddScore(score4, unusualTime, UnusualTimeWeight)
        flags5 == PushFlag(flags4, unusualTime, UnusualTimeFlag(txHour))
        duplicateDetected == IsDuplicate(t, history, now2)
        score6 == AddScore(score5, duplicateDetected, DuplicateWeight)
        flags6 == PushFlag(flags5, duplicateDetected, DuplicateFlag)
        riskScore == ClampScore(score6)
    IN  [risk_score         |-> riskScore,
         risk_level         |-> RiskLevel(riskScore),
         flags              |-> flags6,
         velocity_check     |-> velocityCheck,
         amount_anomaly     |-> amountAnomaly,
         geo_mismatch       |-> geoMismatch,
         unusual_time       |-> unusualTime,
         duplicate_detected |-> duplicateDetected,
         analysis_details   |-> [recentCount |-> recentCount, txHour |-> txHour]]

(***************************************************************************)
(* Inputs: the form of the dashboard (the candidate) and the rows it has   *)
(* loaded (the history)                                                    *)
(***************************************************************************)
Paris == <<"P","a","r","i","s">>
paris == <<"p","a","r","i","s">>
London == <<"L","o","n","d","o","n">>
EmptyString == <<>>

\* the instant at which hour h of the model's second day begins
AtHour(h) == (24 + h) * OneHourMs

\* the clock when the call starts: 10:00 and 03:30
StartInstants == {AtHour(10), AtHour(3) + 6 * FiveMinMs}

Row(age, amount, type, location, start) ==
    [amount |-> amount, transaction_type |-> type, location |-> location,
     created_at |-> start - age]

\* The rows of the user when the call starts at instant start, newest
\* first.  Their ages: 1 min, 2 min, 5 min less 1 ms, 5 min, 10 min, 30 min,
\* 1 h less 1 ms, 1 h.
Pool(start) ==
    << Row(60000,         100,   "transfer", Some(Paris),  start),
       Row(120000,        15000, "transfer", Some(London), start),
       Row(FiveMinMs - 1, 100,   "transfer", Null,         start),
       Row(FiveMinMs,     100,   "transfer", Some(paris),  start),
       Row(2 * FiveMinMs, 100,   "transfer", Some(London), start),
       Row(6 * FiveMinMs, 15000, "payment",  Some(Paris),  start),
       Row(OneHourMs - 1, 100,   "payment",  Some(London), start),
       Row(OneHourMs,     100,   "transfer", Null,         start) >>

\* the rows of pool at the positions of keep, in the order of pool
RECURSIVE Pick(_, _)
Pick(pool, keep) ==
    IF pool = <<>> THEN <<>>
    ELSE (IF Len(pool) \in keep THEN Pick(SubSeq(pool, 1, Len(pool) - 1), keep) \o <<pool[Len(pool)]>>
          ELSE Pick(SubSeq(pool, 1, Len(pool) - 1), keep))

\* .order("created_at", { ascending: false })
NewestFirst(h) == \A i \in 1..(Len(h) - 1) : h[i].created_at >= h[i + 1].created_at

\* every selection of at most MaxHistory rows of the pool, newest first
Histories(start) ==
    {Pick(Pool(start), keep) :
        keep \in {k \in SUBSET (1..Len(Pool(start))) : Cardinality(k) <= MaxHistory}}

TransactionTypes == {"transfer", "payment"}

\* candidates in which the four fields vary together
CoreCandidates ==
    [amount : {100, 201, 15000},
     transaction_type : TransactionTypes,
     location : {Null, Some(paris), Some(London)},
     transaction_date : {AtHour(3), AtHour(12)}]

\* candidates at the borders of the amount checks
AmountCandidates ==
    [amount : {200, 10000, 10001},
     transaction_type : {"transfer"},
     location : {Null},
     transaction_date : {AtHour(12)}]

\* candidates with an empty location and with the casing of the rows
LocationCandidates ==
    [amount : {100},
     transaction_type : {"transfer"},
     location : {Some(EmptyString), Some(Paris)},
     transaction_date : {AtHour(12)}]

\* candidates at every hour of the day, and at the last millisecond of
\* hours 0, 5 and 23
HourCandidates ==
    [amount : {100},
     transaction_type : {"payment"},
     location : {Null},
     transaction_date : {AtHour(h) : h \in 0..23}
                        \cup {AtHour(h) + OneHourMs - 1 : h \in {0, 5, 23}}]

Candidates ==
    CoreCandidates \cup AmountCandidates \cup LocationCandidates \cup HourCandidates

(***************************************************************************)
(* The state machine                                                       *)
(***************************************************************************)
\* a call of the scorer on its own: nothing of the page is in play
NoPage ==
    /\ table = <<>>
    /\ analyses = <<>>
    /\ channel = {}
    /\ fetched = <<>>
    /\ closure = <<>>
    /\ txData = <<>>
    /\ mlResult = <<>>
    /\ submitting = FALSE
    /\ body = <<>>
    /\ nextId = 1

Init ==
    /\ now \in StartInstants
    /\ transactions \in Histories(now)
    /\ NewestFirst(transactions)
    /\ tx \in Candidates
    /\ pc = "idle"
    /\ calledWith = <<>>
    /\ clockReads = <<>>
    /\ result = Null
    /\ NoPage

\* the call with history.shift() in its body
Analyze_Shifting(drift) ==
    /\ pc = "idle"
    /\ calledWith' = transactions
    /\ clockReads' = <<now, now + drift>>
    /\ result' = analyzeTransaction(tx, transactions, now, now + drift)
    /\ now' = now + drift
    /\ pc' = "done"
    /\ transactions' = IF Len(transactions) > 0 THEN Tail(transactions) ELSE transactions
    /\ UNCHANGED <<tx, pageVars>>

\* one call analyzeTransaction(tx, transactions); the clock advances by drift
\* between the two Date.now() reads of the body
Analyze(drift) ==
    /\ pc = "idle"
    /\ calledWith' = transactions
    /\ clockReads' = <<now, now + drift>>
    /\ result' = analyzeTransaction(tx, transactions, now, now + drift)
    /\ now' = now + drift
    /\ pc' = "done"
    /\ UNCHANGED <<transactions, tx, pageVars>>

Next == \E drift \in 0..MaxDrift : Analyze(drift)

Spec == Init /\ [][Next]_vars

(***************************************************************************)
(* Rows of a database whose clock is ahead of the browser's.  created_at   *)
(* is set by the database (DEFAULT now()), the cutoffs of the scorer by    *)
(* Date.now() of the browser: a row can be later than now.                 *)
(***************************************************************************)
\* ages: 1 min in the future, 1 min, 10 min, 30 min, 1 h less 1 ms, 1 h
SkewedPool(start) ==
    << Row(0 - 60000,     100,   "transfer", Some(Paris),  start),
       Row(60000,         15000, "payment",  Some(London), start),
       Row(2 * FiveMinMs, 100,   "payment",  Null,         start),
       Row(6 * FiveMinMs, 15000, "transfer", Some(Paris),  start),
       Row(OneHourMs - 1, 100,   "payment",  Some(London), start),
       Row(OneHourMs,     100,   "transfer", Null,         start) >>

SkewedHistories(start) ==
    {Pick(SkewedPool(start), keep) :
        keep \in {k \in SUBSET (1..Len(SkewedPool(start))) : Cardinality(k) <= MaxHistory}}

InitSkewed ==
    /\ now \in StartInstants
    /\ transactions \in SkewedHistories(now)
    /\ NewestFirst(transactions)
    /\ tx \in CoreCandidates
    /\ pc = "idle"
    /\ calledWith = <<>>
    /\ clockReads = <<>>
    /\ result = Null
    /\ NoPage

SpecSkewed == InitSkewed /\ [][Next]_vars

(***************************************************************************)
(* The Dashboard page on Supabase: handleSubmit, fetchTransactions and the *)
(* realtime subscription.  An action is what runs between two awaits of    *)
(* the page, or one statement of the database.  The rows are those of the  *)
(* signed-in user.                                                         *)
(***************************************************************************)
\* most rows the transactions table gets
MaxRows == 2
\* most times the clock is moved on between two steps
MaxTicks == 1
\* how far the clock is moved on at once
TickMs == FiveMinMs

\* Array.prototype.reverse on a copy: the rows of the table, newest first
RECURSIVE Reverse(_)
Reverse(s) == IF Len(s) = 0 THEN <<>> ELSE Append(Reverse(Tail(s)), Head(s))

\* select * from transactions order by created_at desc: created_at grows
\* with the insertion order
SelectNewestFirst(rows) == Reverse(rows)

\* a row of the transactions table
StoredRow(id, amount, type, location, date, created) ==
    [id |-> id, amount |-> amount, transaction_type |-> type, location |-> location,
     transaction_date |-> date, created_at |-> created]

\* the tables the page can find when it is opened at instant start: no row,
\* or one row 2 min old
InitialTables(start) ==
    { <<>>,
      <<StoredRow(1, 100, "transfer", Null, AtHour(9), start - 120000)>> }

\* what the form can hold when it is submitted; parseFloat(amount) is 0 for
\* the rejected input
Forms ==
    [amount : {0, 100, 15000},
     transaction_type : {"transfer"},
     location : {Null},
     transaction_date : {AtHour(12)}]

\* the form after its reset: parseFloat("") is NaN, the submission is rejected
EmptyForm ==
    [amount |-> 0, transaction_type |-> "transfer", location |-> Null,
     transaction_date |-> AtHour(12)]

\* what the predictor can answer with success: its risk_level is a string
\* of its own vocabulary (MINIMAL, LOW, MEDIUM, HIGH, CRITICAL)
MLResults ==
    { [prediction |-> "LEGITIMATE", fraud_probability |-> 3,  risk_level |-> "MINIMAL"],
      [prediction |-> "FRAUD",      fraud_probability |-> 97, risk_level |-> "CRITICAL"] }

\* the outcomes of the try block around predictFraud: an exception, the
\* answer { success: false }, success without a result, success with a result
PredictOutcomes ==
    { [thrown |-> TRUE,  success |-> FALSE, result |-> Null],
      [thrown |-> FALSE, success |-> FALSE, result |-> Null],
      [thrown |-> FALSE, success |-> TRUE,  result |-> Null] }
    \cup { [thrown |-> FALSE, success |-> TRUE, result |-> Some(r)] : r \in MLResults }

\* the fraud_analysis rows of a table whose rows were each assessed once, on
\* the rows before them
InitialAnalyses(rows) ==
    [i \in 1..Len(rows) |->
        [transaction_id |-> rows[i].id,
         analysis |-> analyzeTransaction(rows[i], SelectNewestFirst(SubSeq(rows, 1, i - 1)),
                                         rows[i].created_at, rows[i].created_at)]]

\* the page is open, the first fetchTransactions has been answered
InitDashboard ==
    /\ now = AtHour(10)
    /\ table \in InitialTables(now)
    /\ transactions = SelectNewestFirst(table)
    /\ analyses = InitialAnalyses(table)
    /\ channel = {}
    /\ fetched = Null
    /\ tx = EmptyForm
    /\ pc = "idle"
    /\ calledWith = <<>>
    /\ clockReads = <<>>
    /\ result = Null
    /\ closure = <<>>
    /\ txData = Null
    /\ mlResult = Null
    /\ submitting = FALSE
    /\ body = Null
    /\ nextId = 1

\* handleSubmit from the click to the await of the insert: the handler of
\* this render holds the `transactions` of this render
HandleSubmit(form) ==
    /\ pc = "idle"
    /\ ~submitting
    /\ Len(table) < MaxRows
    /\ mlResult' = Null
    /\ IF form.amount <= 0
       THEN UNCHANGED <<tx, closure, submitting, pc>>
       ELSE /\ tx' = form
            /\ closure' = transactions
            /\ submitting' = TRUE
            /\ pc' = "inserting"
    /\ UNCHANGED <<transactions, now, calledWith, clockReads, result, table, analyses,
                   channel, fetched, txData, body>>
    /\ UNCHANGED nextId

\* the database runs the insert into transactions: the row gets its id and
\* created_at (a millisecond passes, so created_at grows from row to row),
\* and its INSERT event is sent to the subscribers; or the insert fails
InsertTransaction(ok) ==
    /\ pc = "inserting"
    /\ IF ok
       THEN LET row == StoredRow(Len(table) + 1, tx.amount, tx.transaction_type,
                                 tx.location, tx.transaction_date, now)
            IN  /\ table' = Append(table, row)
                /\ channel' = channel \cup {row.id}
                /\ txData' = Some(row)
                /\ now' = now + 1
                /\ pc' = "inserted"
       ELSE /\ txData' = Null
            /\ pc' = "insertFailed"
            /\ UNCHANGED <<table, channel, now>>
    /\ UNCHANGED <<transactions, tx, calledWith, clockReads, result, analyses, fetched,
                   closure, mlResult, submitting, body>>
    /\ UNCHANGED nextId

\* handleSubmit after a failed insert: toast, setSubmitting(false), return
\* (the form keeps its input)
InsertRejected ==
    /\ pc = "insertFailed"
    /\ submitting' = FALSE
    /\ closure' = <<>>
    /\ pc' = "idle"
    /\ UNCHANGED <<transactions, now, tx, calledWith, clockReads, result, table, analyses,
                   channel, fetched, txData, mlResult, body>>
    /\ UNCHANGED nextId

\* the analysis on the list as it is when the analysis runs
AnalyzeInserted_LiveList(drift) ==
    /\ pc = "inserted"
    /\ calledWith' = transactions
    /\ clockReads' = <<now, now + drift>>
    /\ result' = analyzeTransaction(tx, transactions, now, now + drift)
    /\ now' = now + drift
    /\ pc' = "saving"
    /\ UNCHANGED <<transactions, tx, table, analyses, channel, fetched, closure, txData,
                   mlResult, submitting, body>>
    /\ UNCHANGED nextId

\* handleSubmit after the insert: analyzeTransaction on the form and the
\* `transactions` of the handler's render, up to the await of the insert
\* into fraud_analysis
AnalyzeInserted(drift) ==
    /\ pc = "inserted"
    /\ calledWith' = closure
    /\ clockReads' = <<now, now + drift>>
    /\ result' = analyzeTransaction(tx, closure, now, now + drift)
    /\ now' = now + drift
    /\ pc' = "saving"
    /\ UNCHANGED <<transactions, tx, table, analyses, channel, fetched, closure, txData,
                   mlResult, submitting, body>>
    /\ UNCHANGED nextId

\* the database runs the insert into fraud_analysis (its error is not
\* looked at), and handleSubmit goes on to the await of predictFraud
InsertAnalysis(ok) ==
    /\ pc = "saving"
    /\ analyses' = IF ok
                   THEN Append(analyses, [transaction_id |-> txData[1].id,
                                          analysis |-> result])
                   ELSE analyses
    /\ pc' = "predicting"
    /\ UNCHANGED <<transactions, now, tx, calledWith, clockReads, result, table, channel,
                   fetched, closure, txData, mlResult, submitting, body>>
    /\ UNCHANGED nextId

\* the try block around predictFraud ends, the form is reset,
\* setSubmitting(false), and handleSubmit returns: its locals are gone
PredictReturns(outcome) ==
    /\ pc = "predicting"
    /\ mlResult' = IF ~outcome.thrown /\ outcome.success /\ outcome.result # Null
                   THEN outcome.result
                   ELSE mlResult
    /\ tx' = EmptyForm
    /\ submitting' = FALSE
    /\ closure' = <<>>
    /\ txData' = Null
    /\ result' = Null
    /\ calledWith' = <<>>
    /\ clockReads' = <<>>
    /\ pc' = "idle"
    /\ UNCHANGED <<transactions, now, table, analyses, channel, fetched, body>>
    /\ UNCHANGED nextId

\* the realtime handler of INSERT on transactions
DeliverInsert(id) ==
    /\ id \in channel
    /\ LET newTx == table[id]
       IN  transactions' =
               IF \E i \in 1..Len(transactions) : transactions[i].id = newTx.id
               THEN transactions
               ELSE <<newTx>> \o transactions
    /\ channel' = channel \ {id}
    /\ UNCHANGED <<now, pc, tx, calledWith, clockReads, result, table, analyses, fetched,
                   closure, txData, mlResult, submitting, body>>
    /\ UNCHANGED nextId

\* fetchTransactions is called and the database runs its select
FetchTransactions ==
    /\ fetched = Null
    /\ fetched' = Some(SelectNewestFirst(table))
    /\ UNCHANGED <<transactions, now, pc, tx, calledWith, clockReads, result, table,
                   analyses, channel, closure, txData, mlResult, submitting, body>>
    /\ UNCHANGED nextId

\* fetchTransactions after its await: an error leaves the list, data
\* replaces it
FetchReturns(error) ==
    /\ fetched # Null
    /\ transactions' = IF error THEN transactions ELSE fetched[1]
    /\ fetched' = Null
    /\ UNCHANGED <<now, pc, tx, calledWith, clockReads, result, table, analyses, channel,
                   closure, txData, mlResult, submitting, body>>
    /\ UNCHANGED nextId

\* time passes between two submissions
Tick ==
    /\ pc = "idle"
    /\ now + TickMs <= AtHour(10) + MaxTicks * TickMs + MaxRows * (1 + MaxDrift)
    /\ now' = now + TickMs
    /\ UNCHANGED <<transactions, pc, tx, calledWith, clockReads, result, pageVars>>

NextDashboard ==
    \/ \E form \in Forms : HandleSubmit(form)
    \/ \E ok \in BOOLEAN : InsertTransaction(ok)
    \/ InsertRejected
    \/ \E drift \in 0..MaxDrift : AnalyzeInserted(drift)
    \/ \E ok \in BOOLEAN : InsertAnalysis(ok)
    \/ \E outcome \in PredictOutcomes : PredictReturns(outcome)
    \/ \E id \in channel : DeliverInsert(id)
    \/ FetchTransactions
    \/ \E error \in BOOLEAN : FetchReturns(error)
    \/ Tick

SpecDashboard == InitDashboard /\ [][NextDashboard]_vars

(***************************************************************************)
(* The Dashboard page on the Express backend (src/pages/Dashboard.tsx) and *)
(* POST/GET /api/transactions of backend/server.js.  analyzeTransaction is *)
(* not part of this page: the record it sends is made from the answer of   *)
(* the predictor.                                                          *)
(***************************************************************************)
\* score and level of the page when the predictor gave no result
FallbackAmountLimit == 10000
FallbackHighScore == 80
FallbackLowScore == 10
FallbackLevelLimit == 60

\* riskScore = parsedAmount > 10000 ? 80 : 10
FallbackScore(parsedAmount) ==
    IF parsedAmount > FallbackAmountLimit THEN FallbackHighScore ELSE FallbackLowScore

\* riskLevel = riskScore > 60 ? "high" : "low"
FallbackLevel(riskScore) == IF riskScore > FallbackLevelLimit THEN "high" ELSE "low"

\* amount_anomaly of the record sent: riskScore > 50
SentAnomalyLimit == 50

\* A JSON value of a request or of a jsonb column: an array, or the text
\* JSON.stringify made of one
JsonArray(items) == [text |-> FALSE, value |-> items]
JsonStringify(v) == [text |-> TRUE, value |-> v]

\* typeof v === 'string' ? JSON.parse(v) : v
JsonParseIfText(v) == IF v.text THEN v.value ELSE v

\* the body of the POST: the assessment fields lie at the top level
PostBody(form, mlResponse) ==
    LET answered  == mlResponse.success /\ mlResponse.result # Null
        riskScore == IF answered THEN mlResponse.result[1].fraud_probability
                     ELSE FallbackScore(form.amount)
        riskLevel == IF answered THEN mlResponse.result[1].risk_level
                     ELSE FallbackLevel(riskScore)
    IN  [amount             |-> form.amount,
         transaction_type   |-> form.transaction_type,
         risk_score         |-> riskScore,
         risk_level         |-> riskLevel,
         flags              |-> JsonStringify(JsonArray(
                                   <<"Model Inference Executed", "Engine", "Protocol">>)),
         amount_anomaly     |-> riskScore > SentAnomalyLimit,
         velocity_check     |-> FALSE,
         duplicate_detected |-> FALSE,
         unusual_time       |-> FALSE,
         analysis_details   |-> mlResponse.result]

\* risk_score of a request without an analysis object
DefaultRiskScore == 10

\* const { risk_score = 10, ... } = req.body.analysis || {}
AnalysisOfRequest(reqBody) ==
    IF "analysis" \in DOMAIN reqBody
    THEN reqBody.analysis
    ELSE [risk_score         |-> DefaultRiskScore,
          risk_level         |-> "low",
          flags              |-> JsonArray(<<>>),
          velocity_check     |-> FALSE,
          amount_anomaly     |-> FALSE,
          unusual_time       |-> FALSE,
          duplicate_detected |-> FALSE,
          analysis_details   |-> Null]

\* where POST /api/transactions can fail: nowhere, at the insert into
\* transactions, at the insert into fraud_analysis, at COMMIT, or on the
\* network (fetch rejects)
PostFailures == {"none", "transactions", "fraud_analysis", "commit", "network"}

\* req.user.id of the requests of the model, and the id of another account
User == "user"
OtherUser == "other"

\* a row of the backend's transactions table: it carries its owner
ApiRow(id, user, amount, type, date, created) ==
    [id |-> id, user_id |-> user, amount |-> amount, transaction_type |-> type,
     location |-> Null, transaction_date |-> date, created_at |-> created]

\* WHERE user_id = $1
RowsOfUser(rows, user) == SelectSeq(rows, LAMBDA r : r.user_id = user)

\* the two tables as one value: what BEGIN starts from
Tables == [table |-> table, analyses |-> analyses]

\* ROLLBACK with no effect
Rollback_Keep(atBegin, written) == written

\* ROLLBACK: the tables are those of BEGIN
Rollback(atBegin, written) == atBegin

\* what the connection of the POST handler has written when `failure` stops
\* it: the statements before the failing one
PostWritten(reqBody, failure) ==
    LET row == ApiRow(nextId, User, reqBody.amount, reqBody.transaction_type, now, now)
        fa  == [transaction_id |-> row.id, analysis |-> AnalysisOfRequest(reqBody)]
    IN  [table    |-> IF failure \in {"network", "transactions"}
                      THEN table ELSE Append(table, row),
         analyses |-> IF failure \in {"none", "commit"}
                      THEN Append(analyses, fa) ELSE analyses]

\* SELECT t.*, fa.risk_score, ... FROM transactions t LEFT JOIN
\* fraud_analysis fa ... ORDER BY t.created_at DESC: a row without analysis
\* has nulls
RECURSIVE AnalysisFor(_, _)
AnalysisFor(id, rows) ==
    IF Len(rows) = 0 THEN Null
    ELSE IF Head(rows).transaction_id = id THEN Some(Head(rows).analysis)
    ELSE AnalysisFor(id, Tail(rows))

JoinedRow(row, rows) ==
    LET fa == AnalysisFor(row.id, rows)
    IN  [id |-> row.id, amount |-> row.amount, transaction_type |-> row.transaction_type,
         location |-> row.location, transaction_date |-> row.transaction_date,
         created_at |-> row.created_at,
         risk_score         |-> IF fa = Null THEN Null ELSE Some(fa[1].risk_score),
         risk_level         |-> IF fa = Null THEN Null ELSE Some(fa[1].risk_level),
         flags              |-> IF fa = Null THEN Null ELSE Some(fa[1].flags),
         velocity_check     |-> IF fa = Null THEN Null ELSE Some(fa[1].velocity_check),
         amount_anomaly     |-> IF fa = Null THEN Null ELSE Some(fa[1].amount_anomaly),
         unusual_time       |-> IF fa = Null THEN Null ELSE Some(fa[1].unusual_time),
         duplicate_detected |-> IF fa = Null THEN Null ELSE Some(fa[1].duplicate_detected)]

GetTransactions ==
    LET newest == SelectNewestFirst(RowsOfUser(table, User))
    IN  [i \in 1..Len(newest) |-> JoinedRow(newest[i], analyses)]

\* the FraudAnalysis the page keeps for a row of the answer (the map of
\* fetchTransactions); the answer has no geo_mismatch column
ShownAnalysis(t) ==
    IF t.risk_score = Null THEN Null
    ELSE Some([risk_score         |-> t.risk_score[1],
               risk_level         |-> t.risk_level[1],
               flags              |-> JsonParseIfText(t.flags[1]),
               velocity_check     |-> t.velocity_check[1],
               amount_anomaly     |-> t.amount_anomaly[1],
               geo_mismatch       |-> FALSE,
               unusual_time       |-> t.unusual_time[1],
               duplicate_detected |-> t.duplicate_detected[1]])

\* the form of this page: amount and protocol
ApiForms ==
    [amount : {0, 100, 15000},
     transaction_type : {"bank_transfer", "credit_card"},
     location : {Null},
     transaction_date : {AtHour(12)}]

\* the rows of the other account: one transaction 2 min old, with the
\* fraud_analysis row the POST handler wrote for it
OtherUsersRows(start) ==
    <<ApiRow(1, OtherUser, 100, "bank_transfer", start - 120000, start - 120000)>>

OtherUsersAnalyses(start) ==
    [i \in 1..Len(OtherUsersRows(start)) |->
        [transaction_id |-> OtherUsersRows(start)[i].id,
         analysis |-> AnalysisOfRequest([amount |-> OtherUsersRows(start)[i].amount])]]

\* the page is open on an empty account; another account has a transaction
InitApi ==
    /\ now = AtHour(10)
    /\ table = OtherUsersRows(now)
    /\ analyses = OtherUsersAnalyses(now)
    /\ nextId = Len(table) + 1
    /\ transactions = <<>>
    /\ channel = {}
    /\ fetched = Null
    /\ tx \in {f \in ApiForms : f.amount = 0}
    /\ pc = "idle"
    /\ calledWith = <<>>
    /\ clockReads = <<>>
    /\ result = Null
    /\ closure = <<>>
    /\ txData = Null
    /\ mlResult = Null
    /\ submitting = FALSE
    /\ body = Null

\* handleSubmit from the click to the await of predictFraud; the model
\* stops after MaxRows rows of the user
ApiHandleSubmit(form) ==
    /\ pc = "idle"
    /\ ~submitting
    /\ nextId <= Len(OtherUsersRows(now)) + MaxRows
    /\ IF form.amount <= 0
       THEN UNCHANGED <<tx, submitting, pc>>
       ELSE /\ tx' = form
            /\ submitting' = TRUE
            /\ pc' = "apiPredicting"
    /\ UNCHANGED <<transactions, now, calledWith, clockReads, result, table, analyses,
                   channel, fetched, closure, txData, mlResult, body>>
    /\ UNCHANGED nextId

\* handleSubmit after predictFraud: the score and level of the record come
\* from the answer or from the fallback, and the POST is sent; an exception
\* goes to the catch and nothing is sent
ApiPredictReturns(outcome) ==
    /\ pc = "apiPredicting"
    /\ IF outcome.thrown
       THEN /\ submitting' = FALSE
            /\ pc' = "idle"
            /\ UNCHANGED body
       ELSE /\ body' = Some(PostBody(tx, outcome))
            /\ pc' = "apiPosting"
            /\ UNCHANGED submitting
    /\ UNCHANGED <<transactions, now, tx, calledWith, clockReads, result, table, analyses,
                   channel, fetched, closure, txData, mlResult>>
    /\ UNCHANGED nextId

\* POST /api/transactions: BEGIN, insert into transactions, insert into
\* fraud_analysis, COMMIT and 201; or ROLLBACK and 500
PostTransactions(failure) ==
    /\ pc = "apiPosting"
    /\ LET written == PostWritten(body[1], failure)
           after   == IF failure = "none" THEN written ELSE Rollback(Tables, written)
       IN  /\ table' = after.table
           /\ analyses' = after.analyses
    /\ IF failure = "none"
       THEN /\ now' = now + 1
            /\ nextId' = nextId + 1
            /\ pc' = "apiPosted201"
       ELSE /\ UNCHANGED <<now, nextId>>
            /\ pc' = IF failure = "network" THEN "apiThrown" ELSE "apiPosted500"
    /\ UNCHANGED <<transactions, tx, calledWith, clockReads, result, channel, fetched,
                   closure, txData, mlResult, submitting, body>>

\* handleSubmit after the POST: on 201 the amount is cleared and
\* fetchTransactions is called; then setSubmitting(false)
ApiPostReturns ==
    /\ pc \in {"apiPosted201", "apiPosted500", "apiThrown"}
    /\ IF pc = "apiPosted201"
       THEN /\ tx' = [tx EXCEPT !.amount = 0]
            /\ fetched' = Some(GetTransactions)
       ELSE UNCHANGED <<tx, fetched>>
    /\ body' = Null
    /\ submitting' = FALSE
    /\ pc' = "idle"
    /\ UNCHANGED <<transactions, now, calledWith, clockReads, result, table, analyses,
                   channel, closure, txData, mlResult>>
    /\ UNCHANGED nextId

\* fetchTransactions after its await: setTransactions(data), or the catch
ApiFetchReturns(error) ==
    /\ fetched # Null
    /\ transactions' = IF error THEN transactions ELSE fetched[1]
    /\ fetched' = Null
    /\ UNCHANGED <<now, pc, tx, calledWith, clockReads, result, table, analyses, channel,
                   closure, txData, mlResult, submitting, body>>
    /\ UNCHANGED nextId

\* req.params.id: a text that is a UUID, here Some(id), or one that is not
\* (the id column is of type uuid)
RouteIds == {Some(i) : i \in 1..(MaxRows + 2)} \cup {Null}

\* where the statements of DELETE /api/transactions/:id can fail after the
\* SELECT: nowhere, at the delete from fraud_analysis, at the delete from
\* transactions, at COMMIT
DeleteFailures == {"none", "fraud_analysis", "transactions", "commit"}

\* SELECT id FROM transactions WHERE id = $1 AND user_id = $2
OwnedWithId(id, user) == SelectSeq(table, LAMBDA r : r.id = id /\ r.user_id = user)

\* what the connection of the DELETE handler has written when `failure`
\* stops it
DeleteWritten(id, user, failure) ==
    [analyses |-> IF failure = "fraud_analysis" THEN analyses
                  ELSE SelectSeq(analyses, LAMBDA a : a.transaction_id # id),
     table    |-> IF failure \in {"fraud_analysis", "transactions"} THEN table
                  ELSE SelectSeq(table, LAMBDA r : ~(r.id = id /\ r.user_id = user))]

\* the status DELETE answers: the SELECT raises on a text that is no uuid
\* (catch, 500), finds no row of the user (404), or the deletes and COMMIT
\* follow (200, or the catch and 500)
DeleteStatus(param, failure) ==
    IF param = Null THEN "apiDeleted500"
    ELSE IF Len(OwnedWithId(param[1], User)) = 0 THEN "apiDeleted404"
    ELSE IF failure # "none" THEN "apiDeleted500"
    ELSE "apiDeleted200"

\* DELETE /api/transactions/:id sent with the user's token while no
\* submission is running: BEGIN, the ownership SELECT, the two deletes,
\* COMMIT; ROLLBACK on 404 and in the catch
DeleteTransaction(param, failure) ==
    /\ pc = "idle"
    /\ LET status  == DeleteStatus(param, failure)
           reached == param # Null /\ Len(OwnedWithId(param[1], User)) > 0
           written == IF reached THEN DeleteWritten(param[1], User, failure) ELSE Tables
           after   == IF status = "apiDeleted200" THEN written ELSE Rollback(Tables, written)
       IN  /\ table' = after.table
           /\ analyses' = after.analyses
           /\ pc' = status
    /\ UNCHANGED <<transactions, now, tx, calledWith, clockReads, result, channel, fetched,
                   closure, txData, mlResult, submitting, body, nextId>>

\* the client has read the answer of the DELETE
ApiDeleteReturns ==
    /\ pc \in {"apiDeleted200", "apiDeleted404", "apiDeleted500"}
    /\ pc' = "idle"
    /\ UNCHANGED <<transactions, now, tx, calledWith, clockReads, result, table, analyses,
                   channel, fetched, closure, txData, mlResult, submitting, body, nextId>>

NextApi ==
    \/ \E form \in ApiForms : ApiHandleSubmit(form)
    \/ \E outcome \in PredictOutcomes : ApiPredictReturns(outcome)
    \/ \E failure \in PostFailures : PostTransactions(failure)
    \/ ApiPostReturns
    \/ \E error \in BOOLEAN : ApiFetchReturns(error)
    \/ \E param \in RouteIds, failure \in DeleteFailures : DeleteTransaction(param, failure)
    \/ ApiDeleteReturns
    \/ Tick

SpecApi == InitApi /\ [][NextApi]_vars

(***************************************************************************)
(* Vocabulary of the properties                                            *)
(***************************************************************************)
Done == pc = "done"

Bit(b) == IF b THEN 1 ELSE 0

\* how many flags of the result carry the text
FlagCount(text) ==
    Cardinality({i \in DOMAIN result.flags : result.flags[i].text = text})

\* the high-value check has no boolean of its own: it fired when its flag is there
HighValueFired == FlagCount(HighValueText) > 0

\* the weighted sum of the checks the result reports as fired
WeightedSum(a, h, v, g, u, d) ==
    25 * Bit(a) + 15 * Bit(h) + 20 * Bit(v) + 20 * Bit(g) + 15 * Bit(u) + 20 * Bit(d)

ReportedSum ==
    WeightedSum(result.amount_anomaly, HighValueFired, result.velocity_check,
                result.geo_mismatch, result.unusual_time, result.duplicate_detected)

\* the history the call was given
Hist == calledWith

\* the sum of the amounts of the first n rows of h
RECURSIVE TotalAmount(_, _)
TotalAmount(h, n) == IF n = 0 THEN 0 ELSE TotalAmount(h, n - 1) + h[n].amount

\* the candidate's amount is above twice the mean amount of the history
AboveTwiceMean ==
    /\ Len(Hist) > 0
    /\ tx.amount * Len(Hist) > 2 * TotalAmount(Hist, Len(Hist))

\* the hour of the day in which the candidate's transaction_date lies
HourOfCandidate ==
    CHOOSE h \in 0..23 : \E day \in 0..2 :
        /\ (24 * day + h) * 3600000 <= tx.transaction_date
        /\ tx.transaction_date < (24 * day + h + 1) * 3600000

\* the rows created strictly later than one hour before the first clock read
RowsInLastHour == {i \in 1..Len(Hist) : Hist[i].created_at > clockReads[1] - 3600000}

\* the rows a duplicate check at the second clock read accepts
RowsDuplicating ==
    {i \in 1..Len(Hist) :
        /\ Hist[i].amount = tx.amount
        /\ Hist[i].transaction_type = tx.transaction_type
        /\ Hist[i].created_at > clockReads[2] - 300000}

\* a location that is neither null nor the empty string
NonEmpty(loc) == loc # Null /\ loc[1] # EmptyString

\* the candidate and the first row of the history both have a location, and
\* the two differ after lower-casing
DiffersFromLastLocation ==
    /\ NonEmpty(tx.location)
    /\ Len(Hist) > 0
    /\ NonEmpty(Hist[1].location)
    /\ toLowerCase(Hist[1].location[1]) # toLowerCase(tx.location[1])

\* the score a result has when exactly the given checks fired
ScoreOf(a, h, v, g, u, d) ==
    IF WeightedSum(a, h, v, g, u, d) < 100 THEN WeightedSum(a, h, v, g, u, d) ELSE 100

(***************************************************************************)
(* C1: the risk_score of every result is an integer between 0 and 100.     *)
(***************************************************************************)
C1_ScoreInRange == Done => result.risk_score \in 0..100

\* all six checks fired: the raw sum, 115, is above the bound
C1_Witness ==
    /\ Done
    /\ ReportedSum = 115
    /\ result.risk_score = 100

(***************************************************************************)
(* C2: risk_level is one of "high", "medium", "low"; it is "high" iff      *)
(* risk_score >= 60, "medium" iff 30 <= risk_score < 60, "low" iff         *)
(* risk_score < 30.                                                        *)
(***************************************************************************)
C2_LevelThresholds ==
    Done =>
        /\ result.risk_level \in {"high", "medium", "low"}
        /\ result.risk_level = "high" <=> result.risk_score >= 60
        /\ result.risk_level = "medium" <=>
                (30 <= result.risk_score /\ result.risk_score < 60)
        /\ result.risk_level = "low" <=> result.risk_score < 30

\* a score on the border of "high"
C2_Witness ==
    /\ Done
    /\ result.risk_score = 60
    /\ result.risk_level = "high"

(***************************************************************************)
(* C3: risk_score = min(25*A + 15*H + 20*V + 20*G + 15*U + 20*D, 100),     *)
(* with A, H, V, G, U, D 1 for the checks that fired and 0 for the others. *)
(***************************************************************************)
C3_AdditiveScore ==
    Done =>
        result.risk_score = (IF ReportedSum < 100 THEN ReportedSum ELSE 100)

\* five checks fired and none was capped on the way: 25 + 15 + 20 + 15 + 20
C3_Witness ==
    /\ Done
    /\ result.amount_anomaly /\ HighValueFired /\ result.geo_mismatch
    /\ result.unusual_time /\ result.duplicate_detected
    /\ ~result.velocity_check
    /\ result.risk_score = 95

C5_HighValue ==
    Done =>
        /\ FlagCount("High-value transaction exceeds $10,000") = Bit(tx.amount > 10000)
        /\ result.risk_score =
             ScoreOf(result.amount_anomaly, tx.amount > 10000, result.velocity_check,
                     result.geo_mismatch, result.unusual_time, result.duplicate_detected)
        /\ (Len(Hist) = 0 /\ tx.amount = 15000 /\ HourOfCandidate \notin 1..5) =>
                /\ result.risk_score = 15
                /\ result.risk_level = "low"
                /\ Len(result.flags) = 1
                /\ result.flags[1].text = "High-value transaction exceeds $10,000"
                /\ result.flags[1].nums = <<>>
                /\ result.flags[1].strs = <<>>

\* the high-value check and the amount-anomaly check fired together
C5_Witness ==
    /\ Done
    /\ tx.amount > 10000
    /\ result.amount_anomaly
    /\ FlagCount("High-value transaction exceeds $10,000") = 1
    /\ FlagCount(AmountAnomalyText) = 1

C7_GeoMismatch ==
    Done =>
        /\ result.geo_mismatch <=> DiffersFromLastLocation
        /\ FlagCount(GeoMismatchText) = Bit(DiffersFromLastLocation)
        /\ result.risk_score =
             ScoreOf(result.amount_anomaly, HighValueFired, result.velocity_check,
                     DiffersFromLastLocation, result.unusual_time,
                     result.duplicate_detected)
        /\ (/\ Len(Hist) > 0
            /\ Hist[1].location = Some(<<"P","a","r","i","s">>)
            /\ tx.location = Some(<<"p","a","r","i","s">>)) => ~result.geo_mismatch
        /\ (Len(Hist) > 0 /\ Hist[1].location = Null) => ~result.geo_mismatch

\* "Paris" in the first row, "paris" in the candidate, another city further
\* down the history
C7_Witness ==
    /\ Done
    /\ Len(Hist) > 1
    /\ Hist[1].location = Some(<<"P","a","r","i","s">>)
    /\ tx.location = Some(<<"p","a","r","i","s">>)
    /\ \E i \in 2..Len(Hist) : Hist[i].location = Some(London)
    /\ ~result.geo_mismatch
    /\ FlagCount(GeoMismatchText) = 0

C9_Duplicate ==
    Done =>
        /\ result.duplicate_detected <=> RowsDuplicating # {}
        /\ FlagCount(DuplicateText) = Bit(RowsDuplicating # {})
        /\ result.risk_score =
             ScoreOf(result.amount_anomaly, HighValueFired, result.velocity_check,
                     result.geo_mismatch, result.unusual_time, RowsDuplicating # {})

\* two rows duplicate the candidate: 20 points, one flag
C9_Witness ==
    /\ Done
    /\ Cardinality(RowsDuplicating) >= 2
    /\ result.duplicate_detected
    /\ result.risk_score = 20
    /\ Len(result.flags) = 1
    /\ result.flags[1].text = DuplicateText

(***************************************************************************)
(* C10: the history is the single row {amount 100, type "transfer",        *)
(* created 10 minutes before now}, the candidate {amount 100, type         *)
(* "transfer"} has no location and an hour outside 1..5.                   *)
(***************************************************************************)
TenMinutesScenario ==
    /\ Done
    /\ Len(Hist) = 1
    /\ Hist[1].amount = 100
    /\ Hist[1].transaction_type = "transfer"
    /\ Hist[1].created_at = clockReads[1] - 600000
    /\ tx.amount = 100
    /\ tx.transaction_type = "transfer"
    /\ tx.location = Null
    /\ HourOfCandidate \notin 1..5

\* C10 as stated: the result has duplicate_detected = true, risk_score 20 and
\* risk_level "low"
C10_Original ==
    TenMinutesScenario =>
        /\ result.duplicate_detected
        /\ result.risk_score = 20
        /\ result.risk_level = "low"

\* C10, amended: a row created 10 minutes before now is outside the 5-minute
\* window, so the result has duplicate_detected = false, risk_score 0,
\* risk_level "low" and no flag
C10_Amended ==
    TenMinutesScenario =>
        /\ ~result.duplicate_detected
        /\ result.risk_score = 0
        /\ result.risk_level = "low"
        /\ result.flags = <<>>

\* the scenario of C10 happened
C10_Witness == TenMinutesScenario /\ ~result.duplicate_detected


\* the texts of the flags of the result, in their order
FlagTexts == [i \in DOMAIN result.flags |-> result.flags[i].text]

(***************************************************************************)
(* C11: with an empty history the amount-anomaly, velocity and geo-        *)
(* mismatch checks do not fire, whatever the candidate: points and flags   *)
(* come from the high-value, unusual-time and duplicate checks alone, and  *)
(* the call returns a result.                                              *)
(***************************************************************************)
C11_EmptyHistory ==
    /\ (pc = "idle" /\ Len(transactions) = 0) => ENABLED Next
    /\ (Done /\ Len(Hist) = 0) =>
        /\ DOMAIN result =
             {"risk_score", "risk_level", "flags", "velocity_check", "amount_anomaly",
              "geo_mismatch", "unusual_time", "duplicate_detected", "analysis_details"}
        /\ ~result.amount_anomaly
        /\ ~result.velocity_check
        /\ ~result.geo_mismatch
        /\ \A i \in DOMAIN result.flags :
                result.flags[i].text \in {HighValueText, UnusualTimeText, DuplicateText}
        /\ result.risk_score =
             15 * Bit(HighValueFired) + 15 * Bit(result.unusual_time)
                + 20 * Bit(result.duplicate_detected)

\* an empty history and a candidate with a location, a high amount and an
\* unusual hour
C11_Witness ==
    /\ Done
    /\ Len(Hist) = 0
    /\ NonEmpty(tx.location)
    /\ tx.amount > 10000
    /\ result.unusual_time
    /\ result.risk_score = 30
    /\ Len(result.flags) = 2

(***************************************************************************)
(* C12: flags holds one string per fired check and no other, in the order  *)
(* amount-anomaly, high-value, velocity, geo-mismatch, unusual-time,       *)
(* duplicate.                                                              *)
(***************************************************************************)
C12_FlagOrder ==
    Done =>
        FlagTexts =
            (IF AboveTwiceMean THEN <<AmountAnomalyText>> ELSE <<>>)
         \o (IF tx.amount > 10000 THEN <<HighValueText>> ELSE <<>>)
         \o (IF Cardinality(RowsInLastHour) >= 5 THEN <<VelocityText>> ELSE <<>>)
         \o (IF DiffersFromLastLocation THEN <<GeoMismatchText>> ELSE <<>>)
         \o (IF HourOfCandidate \in 1..5 THEN <<UnusualTimeText>> ELSE <<>>)
         \o (IF RowsDuplicating # {} THEN <<DuplicateText>> ELSE <<>>)

\* all six flags
C12_Witness ==
    /\ Done
    /\ FlagTexts = <<AmountAnomalyText, HighValueText, VelocityText,
                     GeoMismatchText, UnusualTimeText, DuplicateText>>


\* the rows a velocity check at instant n counts
RowsInLastHourAt(n) == {i \in 1..Len(Hist) : Hist[i].created_at > n - 3600000}

\* the rows a duplicate check at instant n accepts
RowsDuplicatingAt(n) ==
    {i \in 1..Len(Hist) :
        /\ Hist[i].amount = tx.amount
        /\ Hist[i].transaction_type = tx.transaction_type
        /\ Hist[i].created_at > n - 300000}

(***************************************************************************)
(* C14: one call uses one current instant: there is an instant of the call *)
(* from which both the velocity cutoff (one hour earlier) and the          *)
(* duplicate cutoff (five minutes earlier) of the result are derived, also *)
(* when the clock advances during the call.                                *)
(***************************************************************************)
C14_SingleInstant ==
    Done =>
        \E n \in clockReads[1]..clockReads[2] :
            /\ result.analysis_details.recentCount = Cardinality(RowsInLastHourAt(n))
            /\ result.duplicate_detected <=> RowsDuplicatingAt(n) # {}


\* the rows created later than both clock reads of the call
FutureRows == {i \in 1..Len(Hist) : Hist[i].created_at > clockReads[2]}

\* the rows created in the hour that ends at the first clock read
RowsInTrailingHour ==
    {i \in 1..Len(Hist) :
        /\ Hist[i].created_at > clockReads[1] - 3600000
        /\ Hist[i].created_at <= clockReads[1]}

\* the rows with the candidate's amount and type created in the five minutes
\* that end at the second clock read
RowsDuplicatingTrailing ==
    {i \in 1..Len(Hist) :
        /\ Hist[i].amount = tx.amount
        /\ Hist[i].transaction_type = tx.transaction_type
        /\ Hist[i].created_at > clockReads[2] - 300000
        /\ Hist[i].created_at <= clockReads[2]}

\* C15 as stated: both windows end at the current instant, so a row created
\* later than now is neither counted for velocity nor matched as a duplicate
C15_Original ==
    Done =>
        /\ result.analysis_details.recentCount = Cardinality(RowsInTrailingHour)
        /\ result.duplicate_detected <=> RowsDuplicatingTrailing # {}

\* C15, amended: the windows have a lower end only, so every row created
\* later than now is counted for velocity, and is matched as a duplicate when
\* it has the candidate's amount and type
C15_Amended ==
    Done =>
        /\ result.analysis_details.recentCount =
             Cardinality(RowsInTrailingHour) + Cardinality(FutureRows)
        /\ (\E i \in FutureRows :
                /\ Hist[i].amount = tx.amount
                /\ Hist[i].transaction_type = tx.transaction_type)
            => result.duplicate_detected

\* a row from the future is the fifth of the hour and the only duplicate
C15_Witness ==
    /\ Done
    /\ Cardinality(FutureRows) = 1
    /\ Cardinality(RowsInTrailingHour) = 4
    /\ result.velocity_check
    /\ RowsDuplicatingTrailing = {}
    /\ result.duplicate_detected


\* a step that is a call of analyzeTransaction
IsCall == pc = "idle" /\ pc' = "done"

\* C16: a call of analyzeTransaction leaves the history (length, order and
\* entries) and the candidate as they were, and the history it read is the
\* one it was given
C16_ArgumentsUnchanged ==
    [][IsCall =>
        /\ Len(transactions') = Len(transactions)
        /\ \A i \in 1..Len(transactions) : transactions'[i] = transactions[i]
        /\ tx' = tx
        /\ calledWith' = transactions]_vars

\* a call on a history of five rows has returned and the history still has
\* its five rows, newest first
C16_Witness ==
    /\ Done
    /\ Len(Hist) = 5
    /\ transactions = Hist
    /\ NewestFirst(transactions)
    /\ Len(result.flags) > 0

TrueBooleans ==
    Bit(result.velocity_check) + Bit(result.amount_anomaly) + Bit(result.geo_mismatch)
        + Bit(result.unusual_time) + Bit(result.duplicate_detected)

Analysed == pc \in {"saving", "predicting"}

\* the row the running handleSubmit inserted
OwnRow == txData[1]

\* C20: when handleSubmit analyses its form, the row of the form is in the
\* table already (inserted before the analysis ran), but the history handed
\* to analyzeTransaction holds no row with its id, whatever realtime events
\* and fetchTransactions answers came in between; a duplicate flag is due to
\* another, earlier row
C20_NoSelfComparison ==
    Analysed =>
        /\ \E i \in 1..Len(table) : table[i] = OwnRow
        /\ OwnRow.created_at <= clockReads[1]
        /\ \A i \in 1..Len(Hist) : Hist[i].id # OwnRow.id
        /\ result.duplicate_detected =>
             \E i \in 1..Len(Hist) :
                /\ Hist[i].id # OwnRow.id
                /\ Hist[i].created_at < OwnRow.created_at
                /\ Hist[i].amount = OwnRow.amount
                /\ Hist[i].transaction_type = OwnRow.transaction_type

\* the list of the page holds the row of the form already (its realtime
\* event or a fetchTransactions brought it) while the history analysed holds
\* only an earlier row, of another amount: no duplicate
C20_Witness ==
    /\ Analysed
    /\ \E i \in 1..Len(transactions) : transactions[i].id = OwnRow.id
    /\ Len(Hist) = 1
    /\ Hist[1].id # OwnRow.id
    /\ Hist[1].amount # OwnRow.amount
    /\ ~result.duplicate_detected


\* what analyzeTransaction returns for the form of the backend page on the
\* list of the page
HeuristicOfForm == analyzeTransaction(tx, transactions, now, now)

\* the fraud_analysis row written last
LastAnalysis == analyses[Len(analyses)].analysis

\* C19 as stated, on the page of src/pages/Dashboard.tsx: whatever
\* predictFraud answered, the record sent for persistence and the
\* fraud_analysis row written hold the output of analyzeTransaction
C19_HeuristicRecord ==
    /\ pc = "apiPosting" =>
        /\ body[1].risk_score = HeuristicOfForm.risk_score
        /\ body[1].risk_level = HeuristicOfForm.risk_level
        /\ body[1].amount_anomaly = HeuristicOfForm.amount_anomaly
        /\ Len(JsonParseIfText(body[1].flags).value) = Len(HeuristicOfForm.flags)
    /\ pc = "apiPosted201" =>
        /\ LastAnalysis.risk_score = body[1].risk_score
        /\ LastAnalysis.risk_level = body[1].risk_level


\* the fraud_analysis rows of a transaction
AssessmentsOf(id) == {j \in 1..Len(analyses) : analyses[j].transaction_id = id}

\* the rows whose submission is over: all but the row of a handleSubmit that
\* has not yet passed its insert into fraud_analysis
SettledRows ==
    {i \in 1..Len(table) :
        ~(pc \in {"inserted", "saving"} /\ txData # Null /\ txData[1].id = table[i].id)}

\* C21 as stated: every accepted transaction has exactly one fraud_analysis
\* row once its submission has passed the insert into fraud_analysis, also
\* when that insert failed, and never more than one
C21_ExactlyOneAssessment ==
    /\ \A i \in 1..Len(table) : Cardinality(AssessmentsOf(table[i].id)) <= 1
    /\ \A i \in SettledRows : Cardinality(AssessmentsOf(table[i].id)) = 1


\* C22 as stated: whatever fetchTransactions answers and realtime events
\* came in, and in whatever order, the list of the page is ordered by
\* created_at, newest first, and so is every history handed to
\* analyzeTransaction
C22_ListNewestFirst ==
    /\ \A i, j \in 1..Len(transactions) :
          i < j => transactions[i].created_at >= transactions[j].created_at
    /\ \A i, j \in 1..Len(calledWith) :
          i < j => calledWith[i].created_at >= calledWith[j].created_at


\* the rows accepted before the row of the running handleSubmit, with its
\* amount and type, and created less than five minutes before the analysis
EarlierTwins ==
    {i \in 1..Len(table) :
        /\ table[i].id # OwnRow.id
        /\ table[i].created_at < OwnRow.created_at
        /\ table[i].amount = OwnRow.amount
        /\ table[i].transaction_type = OwnRow.transaction_type
        /\ table[i].created_at > clockReads[2] - 300000}

\* C23 as stated: a submission that follows one of equal amount and type by
\* less than five minutes is assessed with duplicate_detected = true, however
\* the submissions interleave with fetchTransactions and realtime delivery
C23_SecondIsDuplicate ==
    (Analysed /\ EarlierTwins # {}) => result.duplicate_detected


\* the fixed-threshold level of a score
LevelOfScore(score) ==
    IF score >= 60 THEN "high" ELSE IF score >= 30 THEN "medium" ELSE "low"

\* C24 as stated: in every record handleSubmit sends for persistence,
\* risk_level is the fixed-threshold level of the risk_score sent with it,
\* with an answer of the predictor as with the fallback
C24_LevelOfSentScore ==
    pc = "apiPosting" => body[1].risk_level = LevelOfScore(body[1].risk_score)


\* what the page shows for the row just written when it reads it back
ReadBack == ShownAnalysis(GetTransactions[1])

\* C25 as stated: the assessment read back with GET /api/transactions for
\* the transaction just posted is the assessment that was sent with the
\* POST: score, level, flags and booleans
C25_RoundTrip ==
    pc = "apiPosted201" =>
        /\ ReadBack # Null
        /\ ReadBack[1].risk_score = body[1].risk_score
        /\ ReadBack[1].risk_level = body[1].risk_level
        /\ ReadBack[1].flags.value = JsonParseIfText(body[1].flags).value
        /\ ReadBack[1].velocity_check = body[1].velocity_check
        /\ ReadBack[1].amount_anomaly = body[1].amount_anomaly
        /\ ReadBack[1].unusual_time = body[1].unusual_time
        /\ ReadBack[1].duplicate_detected = body[1].duplicate_detected


\* the six checks, decided on the candidate, the history and the clock reads
AnomalyDue == AboveTwiceMean
HighValueDue == tx.amount > 10000
VelocityDue == Cardinality(RowsInLastHour) >= 5
GeoDue == DiffersFromLastLocation
UnusualTimeDue == 1 <= HourOfCandidate /\ HourOfCandidate <= 5
DuplicateDue == RowsDuplicating # {}

\* how many of the six checks fire
ChecksFired ==
    Bit(AnomalyDue) + Bit(HighValueDue) + Bit(VelocityDue) + Bit(GeoDue)
        + Bit(UnusualTimeDue) + Bit(DuplicateDue)

\* the sum of the weights of the checks that fire, not clamped
RawSum ==
    WeightedSum(AnomalyDue, HighValueDue, VelocityDue, GeoDue, UnusualTimeDue, DuplicateDue)

\* C26: one check alone gives "low", two checks never give "high", and
\* "high" takes at least three checks
C26_NoSingleCheckDecides ==
    Done =>
        /\ ChecksFired = 1 => result.risk_level = "low"
        /\ ChecksFired = 2 => result.risk_level # "high"
        /\ result.risk_level = "high" => ChecksFired >= 3

\* three checks (anomaly, geo, unusual time: 60) reach "high"
C26_Witness ==
    /\ Done
    /\ ChecksFired = 3
    /\ AnomalyDue /\ GeoDue /\ UnusualTimeDue
    /\ result.risk_score = 60
    /\ result.risk_level = "high"

\* C27: with all six checks the raw sum is 115 and the score 100; with at
\* least one check not firing the score is the raw sum
C27_ClampOnlyAllSix ==
    Done =>
        /\ ChecksFired = 6 => (RawSum = 115 /\ result.risk_score = 100)
        /\ ChecksFired < 6 => result.risk_score = RawSum

\* all six checks fire for one candidate and history
C27_Witness ==
    /\ Done
    /\ AnomalyDue /\ HighValueDue /\ VelocityDue /\ GeoDue /\ UnusualTimeDue /\ DuplicateDue
    /\ RawSum = 115
    /\ result.risk_score = 100

\* C28: with empty history the duplicate check does not fire, the score is
\* 0, 15 or 30 and the level is not "high"
C28_EmptyHistoryScores ==
    (Done /\ Len(Hist) = 0) =>
        /\ ~result.duplicate_detected
        /\ FlagCount(DuplicateText) = 0
        /\ result.risk_score \in {0, 15, 30}
        /\ result.risk_level # "high"

\* the largest score of an empty history: high value and unusual time
C28_Witness ==
    /\ Done
    /\ Len(Hist) = 0
    /\ HighValueDue
    /\ UnusualTimeDue
    /\ result.risk_score = 30
    /\ result.risk_level = "medium"


\* every transactions row has exactly one fraud_analysis row, and every
\* fraud_analysis row the transaction it references
PairedIn(rows, fas) ==
    /\ \A i \in 1..Len(rows) :
          Cardinality({j \in 1..Len(fas) : fas[j].transaction_id = rows[i].id}) = 1
    /\ \A j \in 1..Len(fas) : \E i \in 1..Len(rows) : rows[i].id = fas[j].transaction_id

\* the statements at which the database can fail a POST
FailingStatements == {"transactions", "fraud_analysis", "commit"}

OwnIds == {table[i].id : i \in {k \in 1..Len(table) : table[k].user_id = User}}

\* the id a route parameter names, if any
NamedIds(param) == {param[i] : i \in 1..Len(param)}

\* C30 as stated: a DELETE whose statements all succeed removes the
\* transaction and its fraud_analysis row when the id is one of the user's
\* rows, and no other row; for any other id, one that does not exist or one
\* of another user, it answers 404 and changes no row
C30_DeleteOwnOnly ==
    [][\A param \in RouteIds :
          DeleteTransaction(param, "none") =>
              IF NamedIds(param) \cap OwnIds # {}
              THEN /\ pc' = "apiDeleted200"
                   /\ table' = SelectSeq(table, LAMBDA r : r.id \notin NamedIds(param))
                   /\ analyses' = SelectSeq(analyses,
                                            LAMBDA a : a.transaction_id \notin NamedIds(param))
                   /\ \A j \in 1..Len(analyses') :
                         analyses'[j].transaction_id \notin NamedIds(param)
              ELSE /\ pc' = "apiDeleted404"
                   /\ table' = table
                   /\ analyses' = analyses]_vars

====
